---- MODULE Spec2Model ----
(***************************************************************************)
(* BASP instance (libcaf_io/src/instance.cpp): the per-node protocol       *)
(* engine.  The model covers instance::handle (receive state machine,      *)
(* forwarding, handshakes, dispatch), instance::handle_node_shutdown and   *)
(* the outbound writers.  The routing table (routing_table.cpp) and the    *)
(* header predicates (header.cpp) are not part of the translated source    *)
(* file; they are modelled from section 4.1 / 4.2 of the specification.    *)
(*                                                                         *)
(* Conventions: node ids, connection handles, actor ids, operations and    *)
(* wire "bytes" are integers.  A header is serialized as the sequence of   *)
(* its seven fields (one element per field) in wire order.                 *)
(***************************************************************************)
EXTENDS Integers, Sequences, FiniteSets, TLC

VARIABLES
  tbl_,      \* tbl_[i]: routing table of the instance running on node i
  cstate,    \* cstate[i][h]: receive cursor the broker keeps for handle h
  hdr_slot,  \* hdr_slot[i][h]: header cell kept between header and payload
  inbound,   \* inbound[i][h]: bytes in flight towards handle h of instance i
  learned,   \* learned[i][n]: number of learned_new_node_directly(n) upcalls
  last       \* observation of the most recent call (inputs and effects)

vars == <<tbl_, cstate, hdr_slot, inbound, learned, last>>

----------------------------------------------------------------------------
(* Bounds of the model *)

NumNodes == 3
NumHandles == 2
MaxPayloadLen == 1

(* Distinguished values (node_id.hpp, connection_handle.hpp, actor_id) *)

invalid_node_id == 0
invalid_connection_handle == 0
invalid_actor_id == 0

(* message_type (message_type.hpp); 6 stands for any unknown operation *)

server_handshake == 0
client_handshake == 1
dispatch_message == 2
announce_proxy_instance == 3
kill_proxy_instance == 4
heartbeat == 5
unknown_operation == 6

version == 1
no_route_to_destination == 1
header_size == 7

await_header == "await_header"
await_payload == "await_payload"
close_connection == "close_connection"

Nodes == 1..NumNodes
Handles == 1..NumHandles
Insts == {1, 2}
PayloadBytes == {8, 9}

RECURSIVE SeqsUpTo(_)
SeqsUpTo(n) ==
  IF n = 0 THEN {<<>>}
  ELSE LET S == SeqsUpTo(n - 1)
       IN S \cup {Append(s, b) : s \in {x \in S : Len(x) = n - 1}, b \in PayloadBytes}

RECURSIVE SetToSeq(_)
SetToSeq(S) ==
  IF S = {} THEN <<>>
  ELSE LET m == CHOOSE x \in S : \A y \in S : x <= y
       IN <<m>> \o SetToSeq(S \ {m})

----------------------------------------------------------------------------
(* Header codec *)

Hdr(op, opdata, src, dst, sa, da, plen) ==
  [source_node |-> src, dest_node |-> dst, source_actor |-> sa,
   dest_actor |-> da, payload_len |-> plen, operation |-> op,
   operation_data |-> opdata]

NullHdr == Hdr(unknown_operation, 0, invalid_node_id, invalid_node_id,
               invalid_actor_id, invalid_actor_id, 0)

\* bs << hdr : field order of the wire format
Encode(hdr) ==
  <<hdr.source_node, hdr.dest_node, hdr.source_actor, hdr.dest_actor,
    hdr.payload_len, hdr.operation, hdr.operation_data>>

\* bd >> hdr
Decode(buf) ==
  [source_node |-> buf[1], dest_node |-> buf[2], source_actor |-> buf[3],
   dest_actor |-> buf[4], payload_len |-> buf[5], operation |-> buf[6],
   operation_data |-> buf[7]]

is_handshake(hdr) ==
  hdr.operation = server_handshake \/ hdr.operation = client_handshake

is_heartbeat(hdr) == hdr.operation = heartbeat

\* valid(hdr), section 4.1: known operation and the per-type constraints.
\* The structural constraint kept for handshakes and heartbeats is that
\* the sender names itself.  MAX_PAYLOAD lies above every modelled length.
valid(hdr) ==
  /\ hdr.operation \in {server_handshake, client_handshake, dispatch_message,
                        announce_proxy_instance, kill_proxy_instance,
                        heartbeat}
  /\ (hdr.operation = server_handshake => hdr.operation_data = version)
  /\ (hdr.operation = heartbeat => hdr.payload_len = 0)
  /\ (is_handshake(hdr) \/ is_heartbeat(hdr)
        => hdr.source_node # invalid_node_id)

----------------------------------------------------------------------------
(* Routing table, section 4.2 *)

EmptyTable ==
  [direct_by_hdl_ |-> [h \in Handles |-> invalid_node_id],
   direct_by_nid_ |-> [n \in Nodes |-> invalid_connection_handle],
   indirect_ |-> [n \in Nodes |-> {}]]

\* lookup_direct(h) -> NodeId | invalid
lookup_direct_hdl(t, h) ==
  IF h \in Handles THEN t.direct_by_hdl_[h] ELSE invalid_node_id

\* lookup_direct(n) -> ConnectionHandle | invalid
lookup_direct_nid(t, n) ==
  IF n \in Nodes THEN t.direct_by_nid_[n] ELSE invalid_connection_handle

reachable(t, n) ==
  /\ n \in Nodes
  /\ (t.direct_by_nid_[n] # invalid_connection_handle \/ t.indirect_[n] # {})

NoRoute == [found |-> FALSE, next_hop |-> invalid_node_id,
            hdl |-> invalid_connection_handle]

\* the next hops of n whose direct-route lookup succeeds
UsableHops(t, n) ==
  IF n \in Nodes
  THEN {x \in t.indirect_[n] :
          lookup_direct_nid(t, x) # invalid_connection_handle}
  ELSE {}

\* lookup(n): direct if available; otherwise any element of indirect[n]
\* whose direct lookup succeeds (pref is the tie-break of this lookup).
lookup(t, n, pref) ==
  IF lookup_direct_nid(t, n) # invalid_connection_handle
  THEN [found |-> TRUE, next_hop |-> n, hdl |-> lookup_direct_nid(t, n)]
  ELSE LET hops == UsableHops(t, n)
       IN IF hops = {} THEN NoRoute
          ELSE LET hop == IF pref \in hops THEN pref
                          ELSE CHOOSE x \in hops : \A y \in hops : x <= y
               IN [found |-> TRUE, next_hop |-> hop,
                   hdl |-> lookup_direct_nid(t, hop)]

\* add_direct(h, n); precondition: no direct entry for h or n.  When the
\* precondition is broken the maps either keep the old entry or take the
\* new one (ow).
add_direct(t, h, n, ow) ==
  [t EXCEPT
     !.direct_by_hdl_[h] =
        IF @ = invalid_node_id \/ ow THEN n ELSE @,
     !.direct_by_nid_[n] =
        IF @ = invalid_connection_handle \/ ow THEN h ELSE @]

add_direct_pre(t, h, n) ==
  /\ lookup_direct_hdl(t, h) = invalid_node_id
  /\ lookup_direct_nid(t, n) = invalid_connection_handle

\* add_indirect(hop, n) -> bool
add_indirect(t, hop, n) ==
  [tbl |-> [t EXCEPT !.indirect_[n] = @ \cup {hop}],
   added |-> t.indirect_[n] = {}]

\* erase_indirect(n) -> bool
erase_indirect(t, n) ==
  [tbl |-> [t EXCEPT !.indirect_[n] = {}],
   existed |-> t.indirect_[n] # {}]

\* the cascade: sweep n out of every next-hop set
sweep(t, n) ==
  [t EXCEPT !.indirect_ = [x \in Nodes |-> t.indirect_[x] \ {n}]]

\* nodes that were reachable in t and are not in t2
lost_nodes(t, t2) == {x \in Nodes : reachable(t, x) /\ ~reachable(t2, x)}

\* erase_direct(h, on_lost_node)
erase_direct(t, h) ==
  LET n == lookup_direct_hdl(t, h)
  IN IF n = invalid_node_id THEN [tbl |-> t, lost |-> {}]
     ELSE LET t1 == [t EXCEPT !.direct_by_hdl_[h] = invalid_node_id,
                              !.direct_by_nid_[n] = invalid_connection_handle]
              t2 == sweep(t1, n)
          IN [tbl |-> t2, lost |-> lost_nodes(t, t2)]

\* erase(n, on_lost_node): the same cascade keyed by node
erase(t, n) ==
  LET h == lookup_direct_nid(t, n)
      t1 == IF h = invalid_connection_handle THEN t
            ELSE [t EXCEPT !.direct_by_hdl_[h] = invalid_node_id,
                           !.direct_by_nid_[n] = invalid_connection_handle]
      t2 == sweep(t1, n)
  IN [tbl |-> t2, lost |-> lost_nodes(t, t2)]

----------------------------------------------------------------------------
(* Outbound writers *)

NoWriter == [present |-> FALSE, bytes |-> <<>>]
Writer(b) == [present |-> TRUE, bytes |-> b]

\* instance::write(ctx, buf, operation, payload_len, operation_data, ...)
\* Without a payload writer the header goes out with payload_len = 0; with
\* one, header_size placeholder bytes are reserved, the payload is written
\* and the header is patched into the reserved region.
write(buf, operation, operation_data, source_node, dest_node, source_actor, dest_actor, pw) ==
  IF ~pw.present
  THEN buf \o Encode(Hdr(operation, operation_data, source_node, dest_node,
                         source_actor, dest_actor, 0))
  ELSE LET wr_pos == Len(buf)
           reserved == buf \o [i \in 1..header_size |-> 0]
           pl_pos == Len(reserved)
           filled == reserved \o pw.bytes
           plen == Len(filled) - pl_pos
           patch == Encode(Hdr(operation, operation_data, source_node,
                               dest_node, source_actor, dest_actor, plen))
       IN [i \in 1..Len(filled) |->
             IF i > wr_pos /\ i <= wr_pos + header_size
             THEN patch[i - wr_pos] ELSE filled[i]]

\* instance::write(ctx, buf, hdr, pw)
write_hdr(buf, hdr, pw) ==
  write(buf, hdr.operation, hdr.operation_data, hdr.source_node,
        hdr.dest_node, hdr.source_actor, hdr.dest_actor, pw)

NoActor == [present |-> FALSE, id |-> invalid_actor_id, sigs |-> <<>>]

\* pa: the published actor found for the port, if any
write_server_handshake(out_buf, this_node_, pa) ==
  write_hdr(out_buf,
            Hdr(server_handshake, version, this_node_, invalid_node_id,
                IF pa.present THEN pa.id ELSE invalid_actor_id,
                invalid_actor_id, 0),
            Writer(IF pa.present THEN <<pa.id>> \o pa.sigs ELSE <<>>))

\* mutant: the handshake does not name the remote side
write_client_handshake_no_dest(buf, this_node_, remote_side) ==
  write(buf, client_handshake, 0, this_node_, invalid_node_id,
        invalid_actor_id, invalid_actor_id, NoWriter)

write_client_handshake(buf, this_node_, remote_side) ==
  write(buf, client_handshake, 0, this_node_, remote_side,
        invalid_actor_id, invalid_actor_id, NoWriter)

\* mutant: the original payload is left out of the reply
write_dispatch_error_no_payload(buf, source_node, dest_node, ec, original_hdr, has_payload, payload) ==
  write_hdr(buf,
            Hdr(kill_proxy_instance, ec, source_node, dest_node,
                invalid_actor_id, invalid_actor_id, 0),
            Writer(Encode(original_hdr)))

write_dispatch_error(buf, source_node, dest_node, ec, original_hdr, has_payload, payload) ==
  write_hdr(buf,
            Hdr(kill_proxy_instance, ec, source_node, dest_node,
                invalid_actor_id, invalid_actor_id, 0),
            Writer(Encode(original_hdr)
                     \o (IF has_payload THEN payload ELSE <<>>)))

write_heartbeat(buf, this_node_, remote_side) ==
  write(buf, heartbeat, 0, this_node_, remote_side,
        invalid_actor_id, invalid_actor_id, NoWriter)

----------------------------------------------------------------------------
(* Effects of one call: new table, returned state, callee upcalls, bytes   *)
(* appended per handle, flush requests, hook notifications.                *)

NoBytes == [h \in Handles |-> <<>>]

U(name, node, a, b) == [name |-> name, node |-> node, a |-> a, b |-> b]

\* number of upcalls of that name (for that node) in a call's upcalls
Count(seq, name) == Cardinality({i \in 1..Len(seq) : seq[i].name = name})

CountFor(seq, name, node) ==
  Cardinality({i \in 1..Len(seq) : seq[i].name = name /\ seq[i].node = node})

Out(t, res, ups, app, fl, hk, pre) ==
  [tbl |-> t, result |-> res, upcalls |-> ups, appended |-> app,
   flushed |-> fl, hooks |-> hk, add_direct_ok |-> pre]

purge_calls(lost) ==
  LET s == SetToSeq(lost)
  IN [i \in 1..Len(s) |-> U("purge_state", s[i], 0, <<>>)]

\* mutant: the failure closure drops every direct route
err_erases_all(t, hdl, ups) ==
  Out([t EXCEPT !.direct_by_hdl_ = [h \in Handles |-> invalid_node_id],
                !.direct_by_nid_ =
                   [n \in Nodes |-> invalid_connection_handle]],
      close_connection, ups, NoBytes, <<>>, <<>>, TRUE)

\* the err lambda: erase_direct(dm.handle, purge_state); close_connection
err(t, hdl, ups) ==
  LET e == erase_direct(t, hdl)
  IN Out(e.tbl, close_connection, ups \o purge_calls(e.lost), NoBytes,
         <<>>, <<>>, TRUE)

payload_valid(has_payload, payload, hdr) ==
  has_payload /\ Len(payload) = hdr.payload_len

\* mutant: every frame for another node is forwarded
needs_forwarding_any_operation(hdr, this_node_) ==
  hdr.dest_node # this_node_

\* needs forwarding?
needs_forwarding(hdr, this_node_) ==
  /\ ~is_handshake(hdr)
  /\ ~is_heartbeat(hdr)
  /\ hdr.dest_node # this_node_

\* mutant: the payload is not copied
forward_bytes_no_payload(buf, hdr, has_payload, payload) ==
  buf \o Encode(hdr)

\* bytes the forwarding branch serializes into the next hop's buffer
forward_bytes(buf, hdr, has_payload, payload) ==
  (buf \o Encode(hdr)) \o (IF has_payload THEN payload ELSE <<>>)

\* forwarding branch of handle()
forward(t, this_node_, hdr, has_payload, payload, pref) ==
  LET path == lookup(t, hdr.dest_node, pref)
  IN IF path.found
     THEN Out(t, await_header, <<>>,
              [NoBytes EXCEPT ![path.hdl] =
                 forward_bytes(@, hdr, has_payload, payload)],
              <<path.hdl>>, <<"message_forwarded">>, TRUE)
     ELSE IF hdr.source_node # this_node_
     THEN LET reverse_path == lookup(t, hdr.source_node, pref)
          IN IF ~reverse_path.found
             THEN Out(t, await_header, <<>>, NoBytes, <<>>,
                      <<"message_forwarding_failed">>, TRUE)
             ELSE Out(t, await_header, <<>>,
                      [NoBytes EXCEPT ![reverse_path.hdl] =
                         write_dispatch_error(@, this_node_, hdr.source_node,
                                              no_route_to_destination, hdr,
                                              has_payload, payload)],
                      <<>>, <<"message_forwarding_failed">>, TRUE)
     ELSE Out(t, await_header, <<>>, NoBytes, <<>>,
              <<"message_forwarding_failed">>, TRUE)

\* finalize_handshake(hdr.source_node, aid, sigs) with aid and sigs read
\* from the payload if it is valid
finalize_call(hdr, has_payload, payload) ==
  LET pv == payload_valid(has_payload, payload, hdr) /\ Len(payload) > 0
      aid == IF pv THEN payload[1] ELSE invalid_actor_id
      sigs == IF pv THEN Tail(payload) ELSE <<>>
  IN U("finalize_handshake", hdr.source_node, aid, sigs)

\* mutant: the indirect entry of the new direct peer is kept
accept_server_handshake_keeps_indirect(t, this_node_, hdl, hdr, has_payload, payload, pref, ow) ==
  LET t1 == add_direct(t, hdl, hdr.source_node, ow)
      path == lookup(t1, hdr.source_node, pref)
  IN Out(t1, await_header,
         <<U("learned_new_node_directly", hdr.source_node,
             IF t.indirect_[hdr.source_node] # {} THEN 1 ELSE 0, <<>>),
           finalize_call(hdr, has_payload, payload)>>,
         [NoBytes EXCEPT ![path.hdl] =
            write_client_handshake(@, this_node_, hdr.source_node)],
         <<path.hdl>>, <<>>, add_direct_pre(t, hdl, hdr.source_node))

\* server_handshake of a new peer: add the direct route, drop the indirect
\* entry, answer with a client handshake
accept_server_handshake(t, this_node_, hdl, hdr, has_payload, payload, pref, ow) ==
  LET t1 == add_direct(t, hdl, hdr.source_node, ow)
      ei == erase_indirect(t1, hdr.source_node)
      path == lookup(ei.tbl, hdr.source_node, pref)
  IN IF ~path.found
     THEN [err(ei.tbl, hdl, <<>>) EXCEPT
             !.add_direct_ok = add_direct_pre(t, hdl, hdr.source_node)]
     ELSE Out(ei.tbl, await_header,
              <<U("learned_new_node_directly", hdr.source_node,
                  IF ei.existed THEN 1 ELSE 0, <<>>),
                finalize_call(hdr, has_payload, payload)>>,
              [NoBytes EXCEPT ![path.hdl] =
                 write_client_handshake(@, this_node_, hdr.source_node)],
              <<path.hdl>>, <<>>,
              add_direct_pre(t, hdl, hdr.source_node))

\* mutant: the duplicate-connection test is missing
on_server_handshake_no_dedup(t, this_node_, hdl, hdr, has_payload, payload, pref, ow) ==
  IF hdr.source_node = this_node_
  THEN err(t, hdl, <<finalize_call(hdr, has_payload, payload)>>)
  ELSE accept_server_handshake(t, this_node_, hdl, hdr, has_payload,
                               payload, pref, ow)

\* mutant: the self-connection test is missing
on_server_handshake_no_self(t, this_node_, hdl, hdr, has_payload, payload, pref, ow) ==
  IF lookup_direct_nid(t, hdr.source_node) # invalid_connection_handle
  THEN err(t, hdl, <<finalize_call(hdr, has_payload, payload)>>)
  ELSE accept_server_handshake(t, this_node_, hdl, hdr, has_payload,
                               payload, pref, ow)

\* case message_type::server_handshake
on_server_handshake(t, this_node_, hdl, hdr, has_payload, payload, pref, ow) ==
  IF hdr.source_node = this_node_
  THEN err(t, hdl, <<finalize_call(hdr, has_payload, payload)>>)
  ELSE IF lookup_direct_nid(t, hdr.source_node) # invalid_connection_handle
  THEN err(t, hdl, <<finalize_call(hdr, has_payload, payload)>>)
  ELSE accept_server_handshake(t, this_node_, hdl, hdr, has_payload,
                               payload, pref, ow)

\* mutant: a second client handshake is not ignored
on_client_handshake_no_dedup(t, this_node_, hdl, hdr, ow) ==
  LET t1 == add_direct(t, hdl, hdr.source_node, TRUE)
      ei == erase_indirect(t1, hdr.source_node)
  IN Out(ei.tbl, await_header,
         <<U("learned_new_node_directly", hdr.source_node,
             IF ei.existed THEN 1 ELSE 0, <<>>)>>,
         NoBytes, <<>>, <<>>, add_direct_pre(t, hdl, hdr.source_node))

\* case message_type::client_handshake
on_client_handshake(t, this_node_, hdl, hdr, ow) ==
  IF lookup_direct_nid(t, hdr.source_node) # invalid_connection_handle
  THEN Out(t, await_header, <<>>, NoBytes, <<>>, <<>>, TRUE)
  ELSE LET t1 == add_direct(t, hdl, hdr.source_node, ow)
           ei == erase_indirect(t1, hdr.source_node)
       IN Out(ei.tbl, await_header,
              <<U("learned_new_node_directly", hdr.source_node,
                  IF ei.existed THEN 1 ELSE 0, <<>>)>>,
              NoBytes, <<>>, <<>>, add_direct_pre(t, hdl, hdr.source_node))

\* mutant: the source of a routed message is not recorded
on_dispatch_message_no_discovery(t, this_node_, hdl, hdr, has_payload, payload) ==
  IF ~payload_valid(has_payload, payload, hdr)
  THEN err(t, hdl, <<>>)
  ELSE Out(t, await_header,
           <<U("deliver", hdr.source_node, hdr.operation_data, payload)>>,
           NoBytes, <<>>, <<>>, TRUE)

\* case message_type::dispatch_message
on_dispatch_message(t, this_node_, hdl, hdr, has_payload, payload) ==
  IF ~payload_valid(has_payload, payload, hdr)
  THEN err(t, hdl, <<>>)
  ELSE LET last_hop == lookup_direct_hdl(t, hdl)
           discover == /\ hdr.source_node # invalid_node_id
                       /\ hdr.source_node # this_node_
                       /\ last_hop # hdr.source_node
                       /\ lookup_direct_nid(t, hdr.source_node)
                            = invalid_connection_handle
           ai == IF discover THEN add_indirect(t, last_hop, hdr.source_node)
                 ELSE [tbl |-> t, added |-> FALSE]
           dlv == U("deliver", hdr.source_node, hdr.operation_data, payload)
       IN Out(ai.tbl, await_header,
              IF ai.added
              THEN <<U("learned_new_node_indirectly", hdr.source_node, 0,
                       <<>>), dlv>>
              ELSE <<dlv>>,
              NoBytes, <<>>, <<>>, TRUE)

\* switch (hdr.operation): handle message to ourselves
local_delivery(t, this_node_, hdl, hdr, has_payload, payload, pref, ow) ==
  CASE hdr.operation = server_handshake ->
         on_server_handshake(t, this_node_, hdl, hdr, has_payload, payload,
                             pref, ow)
    [] hdr.operation = client_handshake ->
         on_client_handshake(t, this_node_, hdl, hdr, ow)
    [] hdr.operation = dispatch_message ->
         on_dispatch_message(t, this_node_, hdl, hdr, has_payload, payload)
    [] hdr.operation = announce_proxy_instance ->
         Out(t, await_header,
             <<U("proxy_announced", hdr.source_node, hdr.dest_actor, <<>>)>>,
             NoBytes, <<>>, <<>>, TRUE)
    [] hdr.operation = kill_proxy_instance ->
         Out(t, await_header,
             <<U("kill_proxy", hdr.source_node, hdr.source_actor,
                 <<hdr.operation_data>>)>>,
             NoBytes, <<>>, <<>>, TRUE)
    [] hdr.operation = heartbeat ->
         Out(t, await_header,
             <<U("handle_heartbeat", hdr.source_node, 0, <<>>)>>,
             NoBytes, <<>>, <<>>, TRUE)
    [] OTHER -> err(t, hdl, <<>>)

\* a complete frame (header and, if any, payload) is at hand
process_frame(t, this_node_, hdl, hdr, has_payload, payload, pref, ow) ==
  IF needs_forwarding(hdr, this_node_)
  THEN forward(t, this_node_, hdr, has_payload, payload, pref)
  ELSE local_delivery(t, this_node_, hdl, hdr, has_payload, payload, pref, ow)

\* mutant: the payload is awaited even when payload_len = 0
header_phase_always_awaits(t, this_node_, hdl, hdr, pref, ow) ==
  IF ~valid(hdr) THEN err(t, hdl, <<>>)
  ELSE Out(t, await_payload, <<>>, NoBytes, <<>>, <<>>, TRUE)

\* header phase of handle(): decode, validate, ask for the payload
header_phase(t, this_node_, hdl, hdr, pref, ow) ==
  IF ~valid(hdr) THEN err(t, hdl, <<>>)
  ELSE IF hdr.payload_len > 0
  THEN Out(t, await_payload, <<>>, NoBytes, <<>>, <<>>, TRUE)
  ELSE process_frame(t, this_node_, hdl, hdr, FALSE, <<>>, pref, ow)

\* payload phase of handle(): the chunk must have the announced length
payload_phase(t, this_node_, hdl, buf, hdr, pref, ow) ==
  IF Len(buf) # hdr.payload_len THEN err(t, hdl, <<>>)
  ELSE process_frame(t, this_node_, hdl, hdr, TRUE, buf, pref, ow)

\* instance::handle(ctx, dm, hdr, is_payload); slot is the caller's header
\* cell.  The result carries the header cell after the call (hdr).
handle(t, this_node_, hdl, buf, slot, is_payload, pref, ow) ==
  IF is_payload
  THEN [out |-> payload_phase(t, this_node_, hdl, buf, slot, pref, ow),
        hdr |-> slot]
  ELSE [out |-> header_phase(t, this_node_, hdl, Decode(buf), pref, ow),
        hdr |-> Decode(buf)]

\* mutant: the affected node is purged whether or not it had a route
handle_node_shutdown_always_purges(t, affected_node) ==
  IF affected_node = invalid_node_id
  THEN Out(t, "void", <<>>, NoBytes, <<>>, <<>>, TRUE)
  ELSE LET e == erase(t, affected_node)
       IN Out(e.tbl, "void", purge_calls(e.lost \cup {affected_node}),
              NoBytes, <<>>, <<>>, TRUE)

\* mutant: the invalid node is not filtered out
handle_node_shutdown_no_filter(t, affected_node) ==
  LET e == erase(t, affected_node)
  IN Out(e.tbl, "void", purge_calls(e.lost), NoBytes, <<>>, <<>>, TRUE)

\* instance::handle_node_shutdown(affected_node)
handle_node_shutdown(t, affected_node) ==
  IF affected_node = invalid_node_id
  THEN Out(t, "void", <<>>, NoBytes, <<>>, <<>>, TRUE)
  ELSE LET e == erase(t, affected_node)
       IN Out(e.tbl, "void", purge_calls(e.lost), NoBytes, <<>>, <<>>, TRUE)

\* instance::handle_heartbeat(ctx): one heartbeat per entry of
\* direct_by_hdl_, in the order of the handles, each followed by a flush
RECURSIVE heartbeat_loop(_, _, _, _)
heartbeat_loop(t, this_node_, h, o) ==
  IF h > NumHandles THEN o
  ELSE IF t.direct_by_hdl_[h] = invalid_node_id
  THEN heartbeat_loop(t, this_node_, h + 1, o)
  ELSE heartbeat_loop(t, this_node_, h + 1,
         [o EXCEPT !.appended[h] =
                     write_heartbeat(@, this_node_, t.direct_by_hdl_[h]),
                   !.flushed = Append(@, h)])

handle_heartbeat(t, this_node_) ==
  heartbeat_loop(t, this_node_, 1,
                 Out(t, "void", <<>>, NoBytes, <<>>, <<>>, TRUE))

\* an actor address: none, or an actor id on a node
NoAddr == [present |-> FALSE, node |-> invalid_node_id, id |-> invalid_actor_id]
Addr(n, id) == [present |-> TRUE, node |-> n, id |-> id]

\* mutant: the frame always names the local node as its source
dispatch_hdr_local_source(this_node_, sender, receiver, mid) ==
  Hdr(dispatch_message, mid, this_node_, receiver.node,
      IF sender.present THEN sender.id ELSE invalid_actor_id, receiver.id, 0)

\* header that dispatch() builds
dispatch_hdr(this_node_, sender, receiver, mid) ==
  Hdr(dispatch_message, mid,
      IF sender.present THEN sender.node ELSE this_node_, receiver.node,
      IF sender.present THEN sender.id ELSE invalid_actor_id, receiver.id, 0)

\* instance::dispatch(ctx, sender, forwarding_stack, receiver, mid, msg);
\* body is the serialized (forwarding_stack, msg)
dispatch(t, this_node_, sender, receiver, mid, body, pref) ==
  LET path == lookup(t, receiver.node, pref)
  IN IF ~path.found
     THEN Out(t, "false", <<>>, NoBytes, <<>>, <<"message_sending_failed">>,
              TRUE)
     ELSE Out(t, "true", <<>>,
              [NoBytes EXCEPT ![path.hdl] =
                 write_hdr(@, dispatch_hdr(this_node_, sender, receiver, mid),
                           Writer(body))],
              <<path.hdl>>, <<"message_sent">>, TRUE)

----------------------------------------------------------------------------
(* State machine: one instance under arbitrary broker calls *)

\* the instance under arbitrary calls runs on node 2
Self == 2

HeaderInputs ==
  {Hdr(op, od, s, d, 5, 6, pl) :
     op \in server_handshake..unknown_operation, od \in {0, version},
     s \in {invalid_node_id} \cup Nodes, d \in {invalid_node_id} \cup Nodes,
     pl \in 0..MaxPayloadLen}

\* frames offered to the instance: operation_data varies where valid()
\* reads it
Frames == {h \in HeaderInputs :
             h.operation = server_handshake \/ h.operation_data = 0}

Chunks == SeqsUpTo(MaxPayloadLen)

\* what one call did: its inputs, the table before it and its effects
Observe(op, inst, hdl, is_payload, hdr, payload, node, pre, o) ==
  [op |-> op, inst |-> inst, hdl |-> hdl, is_payload |-> is_payload,
   hdr |-> hdr, payload |-> payload, node |-> node, pre |-> pre,
   result |-> o.result, upcalls |-> o.upcalls, appended |-> o.appended,
   flushed |-> o.flushed, hooks |-> o.hooks,
   add_direct_ok |-> o.add_direct_ok, after_close |-> FALSE]

Nothing(t) == Out(t, "void", <<>>, NoBytes, <<>>, <<>>, TRUE)

\* the event loop is between two calls
Idle == Observe("idle", Self, invalid_connection_handle, FALSE, NullHdr,
                <<>>, invalid_node_id, EmptyTable, Nothing(EmptyTable))

\* tie-breaks that can make a difference for this frame
PrefChoices(t, hdr) ==
  IF Cardinality(UsableHops(t, hdr.dest_node)) > 1
       \/ Cardinality(UsableHops(t, hdr.source_node)) > 1
  THEN Nodes ELSE {Self}

OwChoices(t, h, hdr) ==
  IF is_handshake(hdr) /\ hdr.source_node \in Nodes
       /\ ~add_direct_pre(t, h, hdr.source_node)
  THEN BOOLEAN ELSE {FALSE}

Init ==
  /\ tbl_ = [i \in Insts |-> EmptyTable]
  /\ cstate = [i \in Insts |-> [h \in Handles |-> await_header]]
  /\ hdr_slot = [i \in Insts |-> [h \in Handles |-> NullHdr]]
  /\ inbound = [i \in Insts |-> [h \in Handles |-> <<>>]]
  /\ learned = [i \in Insts |-> [n \in Nodes |-> 0]]
  /\ last = Idle

\* what the broker does with the state handle() returned
AfterHandle(i, h, r) ==
  /\ tbl_' = [tbl_ EXCEPT ![i] = r.out.tbl]
  /\ cstate' = [cstate EXCEPT ![i][h] = r.out.result]
  /\ hdr_slot' = [hdr_slot EXCEPT ![i][h] =
                    IF r.out.result = await_payload THEN r.hdr ELSE NullHdr]

\* the broker replaces a dropped connection by a new one
NewConnection ==
  /\ last.op = "idle"
  /\ \E h \in Handles :
       /\ cstate[Self][h] = close_connection
       /\ cstate' = [cstate EXCEPT ![Self][h] = await_header]
  /\ UNCHANGED <<tbl_, hdr_slot, inbound, learned, last>>

\* handle(ctx, dm, hdr, is_payload) on instance i for the chunk buf on h
CallHandle(i, h, buf, is_payload, pref, ow) ==
  LET r == handle(tbl_[i], i, h, buf, hdr_slot[i][h], is_payload, pref, ow)
  IN /\ AfterHandle(i, h, r)
     /\ last' = Observe("handle", i, h, is_payload, r.hdr,
                        IF is_payload THEN buf ELSE <<>>,
                        invalid_node_id, tbl_[i], r.out)

\* a header chunk arrives on h: handle(ctx, dm, hdr, false).  A header that
\* announces a payload only fills the header cell (the call returns before
\* it reads the table), so the payload chunk is taken as the next event.
RecvHeader ==
  /\ last.op = "idle"
  /\ \A g \in Handles : cstate[Self][g] # await_payload
  /\ \E h \in Handles :
       /\ cstate[Self][h] = await_header
       /\ \E hdr \in Frames :
            \E pref \in PrefChoices(tbl_[Self], hdr),
               ow \in OwChoices(tbl_[Self], h, hdr) :
              CallHandle(Self, h, Encode(hdr), FALSE, pref, ow)
  /\ UNCHANGED <<inbound, learned>>

\* a payload chunk arrives on h: handle(ctx, dm, hdr, true)
RecvPayload ==
  /\ last.op = "idle"
  /\ \E h \in Handles :
       /\ cstate[Self][h] = await_payload
       /\ \E buf \in Chunks :
            \E pref \in PrefChoices(tbl_[Self], hdr_slot[Self][h]),
               ow \in OwChoices(tbl_[Self], h, hdr_slot[Self][h]) :
              CallHandle(Self, h, buf, TRUE, pref, ow)
  /\ UNCHANGED <<inbound, learned>>

\* the broker reports a lost node
NodeShutdown ==
  /\ last.op = "idle"
  /\ \A g \in Handles : cstate[Self][g] # await_payload
  /\ \E n \in {invalid_node_id} \cup Nodes :
       LET o == handle_node_shutdown(tbl_[Self], n)
       IN /\ tbl_' = [tbl_ EXCEPT ![Self] = o.tbl]
          /\ last' = Observe("handle_node_shutdown", Self,
                             invalid_connection_handle, FALSE, NullHdr, <<>>,
                             n, tbl_[Self], o)
  /\ UNCHANGED <<cstate, hdr_slot, inbound, learned>>

\* the call before returned close_connection for last.hdl
Closed ==
  /\ last.op = "handle"
  /\ last.result = close_connection
  /\ ~last.after_close

\* headers that fail validation whatever the table holds
ClosingFrames ==
  {hdr \in Frames : /\ ~valid(hdr)
                    /\ hdr.source_node = invalid_node_id
                    /\ hdr.dest_node = invalid_node_id}

\* after close_connection the broker drops the connection and calls
\* handle_node_shutdown for the node the handle was mapped to (section 7)
ShutdownAfterClose ==
  /\ Closed
  /\ LET n == lookup_direct_hdl(last.pre, last.hdl)
         o == handle_node_shutdown(tbl_[Self], n)
     IN /\ tbl_' = [tbl_ EXCEPT ![Self] = o.tbl]
        /\ last' = [Observe("handle_node_shutdown", Self, last.hdl, FALSE,
                            NullHdr, <<>>, n, tbl_[Self], o)
                      EXCEPT !.after_close = TRUE]
  /\ UNCHANGED <<cstate, hdr_slot, inbound, learned>>

\* a chunk that was already queued for the closed connection reaches
\* handle() and fails: the failure closure runs a second time
CloseAgain ==
  /\ Closed
  /\ \E hdr \in ClosingFrames :
       LET r == handle(tbl_[Self], Self, last.hdl, Encode(hdr), NullHdr,
                       FALSE, Self, FALSE)
       IN /\ AfterHandle(Self, last.hdl, r)
          /\ last' = [Observe("handle", Self, last.hdl, FALSE, r.hdr, <<>>,
                              invalid_node_id, tbl_[Self], r.out)
                        EXCEPT !.after_close = TRUE]
  /\ UNCHANGED <<inbound, learned>>

\* the heartbeat timer fires: handle_heartbeat(ctx)
HandleHeartbeat ==
  /\ last.op = "idle"
  /\ \A g \in Handles : cstate[Self][g] # await_payload
  /\ last' = Observe("handle_heartbeat", Self, invalid_connection_handle,
                     FALSE, NullHdr, <<>>, invalid_node_id, tbl_[Self],
                     handle_heartbeat(tbl_[Self], Self))
  /\ UNCHANGED <<tbl_, cstate, hdr_slot, inbound, learned>>

\* senders, receivers, message ids and message bodies of dispatch() calls
Senders == {NoAddr, Addr(Self, 5), Addr(1, 5)}
Receivers == {Addr(n, 6) : n \in Nodes \ {Self}}
MessageIds == {0, 3}
Bodies == {<<8, 9>>}

\* the arguments of a dispatch() call, kept in the shape of a header
DispatchArgs(sender, receiver, mid) ==
  Hdr(dispatch_message, mid, sender.node, receiver.node, sender.id,
      receiver.id, 0)

\* a local actor sends to a remote receiver: dispatch(ctx, sender, ...)
Dispatch ==
  /\ last.op = "idle"
  /\ \A g \in Handles : cstate[Self][g] # await_payload
  /\ \E sender \in Senders, receiver \in Receivers, mid \in MessageIds,
        body \in Bodies :
       \E pref \in PrefChoices(tbl_[Self],
                               dispatch_hdr(Self, sender, receiver, mid)) :
         last' = Observe("dispatch", Self, invalid_connection_handle, FALSE,
                         DispatchArgs(sender, receiver, mid), body,
                         receiver.node, tbl_[Self],
                         dispatch(tbl_[Self], Self, sender, receiver, mid,
                                  body, pref))
  /\ UNCHANGED <<tbl_, cstate, hdr_slot, inbound, learned>>

\* the call returns to the event loop
Return ==
  /\ last.op # "idle"
  /\ last' = Idle
  /\ UNCHANGED <<tbl_, cstate, hdr_slot, inbound, learned>>

Next ==
  \/ NewConnection
  \/ RecvHeader
  \/ RecvPayload
  \/ NodeShutdown
  \/ ShutdownAfterClose
  \/ CloseAgain
  \/ HandleHeartbeat
  \/ Dispatch
  \/ Return

Spec == Init /\ [][Next]_vars

----------------------------------------------------------------------------
(* Two instances, on nodes 1 and 2, joined by connections.  Connection h   *)
(* is handle h on both sides.  Bytes a side appends and flushes travel to  *)
(* the other side's inbound stream; the broker reads header_size bytes,    *)
(* then payload_len bytes (section 6).                                     *)

no_connection == "no_connection"

Peer(i) == 3 - i

Open(i, h) == cstate[i][h] \in {await_header, await_payload}

\* published actor the accepting side may announce
PublishedOptions == {NoActor, [present |-> TRUE, id |-> 9, sigs |-> <<>>]}

InitNet ==
  /\ tbl_ = [i \in Insts |-> EmptyTable]
  /\ cstate = [i \in Insts |-> [h \in Handles |-> no_connection]]
  /\ hdr_slot = [i \in Insts |-> [h \in Handles |-> NullHdr]]
  /\ inbound = [i \in Insts |-> [h \in Handles |-> <<>>]]
  /\ learned = [i \in Insts |-> [n \in Nodes |-> 0]]
  /\ last = Idle

\* instance i accepts connection h: the broker has it write the server
\* handshake into the new handle's buffer and flushes
NetAccept ==
  /\ last.op = "idle"
  /\ \E i \in Insts, h \in Handles, pa \in PublishedOptions :
       /\ \A j \in Insts : cstate[j][h] = no_connection
       /\ LET bytes == write_server_handshake(<<>>, i, pa)
          IN /\ inbound' = [inbound EXCEPT ![Peer(i)][h] = @ \o bytes]
             /\ last' = Observe("accept", i, h, FALSE, NullHdr, <<>>,
                                invalid_node_id, tbl_[i],
                                [Nothing(tbl_[i]) EXCEPT
                                   !.appended = [NoBytes EXCEPT ![h] = bytes],
                                   !.flushed = <<h>>])
       /\ cstate' = [j \in Insts |-> [cstate[j] EXCEPT ![h] = await_header]]
  /\ UNCHANGED <<tbl_, hdr_slot, learned>>

\* bytes of the call that were flushed on handle g
Flushed(o, g) ==
  IF \E k \in 1..Len(o.flushed) : o.flushed[k] = g
  THEN o.appended[g] ELSE <<>>

\* the broker of instance i reads the next chunk on h and calls handle()
NetDeliver ==
  /\ last.op = "idle"
  /\ \E i \in Insts, h \in Handles :
       /\ Open(i, h)
       /\ LET is_payload == cstate[i][h] = await_payload
              need == IF is_payload THEN hdr_slot[i][h].payload_len
                      ELSE header_size
              slot == hdr_slot[i][h]
          IN /\ Len(inbound[i][h]) >= need
             /\ \E pref \in PrefChoices(tbl_[i], slot),
                   ow \in OwChoices(tbl_[i], h, slot) :
                  LET chunk == SubSeq(inbound[i][h], 1, need)
                      r == handle(tbl_[i], i, h, chunk, slot, is_payload,
                                  pref, ow)
                  IN /\ CallHandle(i, h, chunk, is_payload, pref, ow)
                     /\ inbound' =
                          [j \in Insts |-> [g \in Handles |->
                             IF j = i
                             THEN IF g # h THEN inbound[i][g]
                                  ELSE IF r.out.result = close_connection
                                  THEN <<>>
                                  ELSE SubSeq(inbound[i][h], need + 1,
                                              Len(inbound[i][h]))
                             ELSE IF Open(j, g)
                                  THEN inbound[j][g] \o Flushed(r.out, g)
                                  ELSE inbound[j][g]]]
                     /\ learned' =
                          [learned EXCEPT ![i] = [n \in Nodes |->
                             @[n] + CountFor(r.out.upcalls,
                                             "learned_new_node_directly", n)]]

\* the other side dropped connection h: the broker of i drops it too and
\* reports the node it was mapped to (section 5)
NetPeerClosed ==
  /\ last.op = "idle"
  /\ \E i \in Insts, h \in Handles :
       /\ Open(i, h)
       /\ cstate[Peer(i)][h] = close_connection
       /\ LET n == lookup_direct_hdl(tbl_[i], h)
              o == handle_node_shutdown(tbl_[i], n)
          IN /\ tbl_' = [tbl_ EXCEPT ![i] = o.tbl]
             /\ last' = Observe("handle_node_shutdown", i, h, FALSE, NullHdr,
                                <<>>, n, tbl_[i], o)
       /\ cstate' = [cstate EXCEPT ![i][h] = close_connection]
       /\ hdr_slot' = [hdr_slot EXCEPT ![i][h] = NullHdr]
       /\ inbound' = [inbound EXCEPT ![i][h] = <<>>]
  /\ UNCHANGED learned

NextNet ==
  \/ NetAccept
  \/ NetDeliver
  \/ NetPeerClosed
  \/ Return

SpecNet == InitNet /\ [][NextNet]_vars

----------------------------------------------------------------------------
(* Vocabulary of the properties *)

Now == tbl_[last.inst]

\* the last call was a handle() call that had a complete frame at hand
FrameDone ==
  /\ last.op = "handle"
  /\ \/ ~last.is_payload /\ valid(last.hdr) /\ last.hdr.payload_len = 0
     \/ last.is_payload /\ Len(last.payload) = last.hdr.payload_len

Forwardable ==
  /\ last.hdr.operation \notin {server_handshake, client_handshake, heartbeat}
  /\ last.hdr.dest_node # last.inst

HasRoute(t, n) == \E p \in Nodes : lookup(t, n, p).found

RouteHandles(t, n) == {lookup(t, n, p).hdl : p \in Nodes}

Bijection(t) ==
  /\ \A h \in Handles :
       t.direct_by_hdl_[h] # invalid_node_id
         => /\ t.direct_by_hdl_[h] \in Nodes
            /\ t.direct_by_nid_[t.direct_by_hdl_[h]] = h
  /\ \A n \in Nodes :
       t.direct_by_nid_[n] # invalid_connection_handle
         => t.direct_by_hdl_[t.direct_by_nid_[n]] = n

----------------------------------------------------------------------------
(* C1 *)

\* some effect of frame processing is visible in the call
Processed ==
  \/ last.result = close_connection
  \/ last.upcalls # <<>>
  \/ last.hooks # <<>>
  \/ /\ last.hdr.operation = client_handshake
     /\ lookup_direct_nid(last.pre, last.hdr.source_node)
          # invalid_connection_handle

\* C1: framing never desynchronizes.  handle() returns await_payload only
\* from a header call with a valid header and payload_len > 0; a payload
\* call returns await_header or close_connection; a valid header with
\* payload_len = 0 is processed as a complete frame in the same call; the
\* broker's cursor awaits a payload exactly when its header cell holds such
\* a header.
C1_Framing ==
  /\ last.op = "handle" =>
       /\ last.result \in {await_header, await_payload, close_connection}
       /\ (last.result = await_payload =>
             ~last.is_payload /\ valid(last.hdr) /\ last.hdr.payload_len > 0)
       /\ (last.is_payload =>
             last.result \in {await_header, close_connection})
       /\ (~last.is_payload /\ valid(last.hdr) /\ last.hdr.payload_len = 0 =>
             last.result # await_payload /\ Processed)
       /\ cstate[last.inst][last.hdl] = last.result
  /\ \A i \in Insts, h \in Handles :
       cstate[i][h] = await_payload <=>
         valid(hdr_slot[i][h]) /\ hdr_slot[i][h].payload_len > 0

C1_Witness ==
  /\ last.op = "handle" /\ last.is_payload
  /\ last.hdr.payload_len > 0
  /\ last.result = await_header
  /\ last.upcalls # <<>>

----------------------------------------------------------------------------
(* C2 *)

\* C2: after handle() returned close_connection for handle h, neither
\* direct map has an entry for h and no next-hop set contains the node h
\* was mapped to.
C2_NoEntryOutlivesConnection ==
  last.op = "handle" /\ last.result = close_connection =>
    /\ Now.direct_by_hdl_[last.hdl] = invalid_node_id
    /\ \A n \in Nodes : Now.direct_by_nid_[n] # last.hdl
    /\ lookup_direct_hdl(last.pre, last.hdl) # invalid_node_id =>
         \A x \in Nodes :
           lookup_direct_hdl(last.pre, last.hdl) \notin Now.indirect_[x]

----------------------------------------------------------------------------
(* C3 *)

\* C3: direct_by_handle and direct_by_node are inverse bijections after
\* every call, and handle() calls add_direct(h, n) only when neither h nor
\* n has a direct entry.
C3_Bijection ==
  /\ Bijection(Now)
  /\ last.op = "handle" => last.add_direct_ok

----------------------------------------------------------------------------
(* C4 *)

\* C4: every next hop stored in an indirect entry has a direct route.
C4_HopsAreDirect ==
  \A x \in Nodes : \A hop \in Now.indirect_[x] :
    lookup_direct_nid(Now, hop) # invalid_connection_handle

----------------------------------------------------------------------------
(* C5 *)

\* the last call processed a server_handshake whose source already had a
\* direct route
DupServerHandshake ==
  /\ FrameDone
  /\ last.hdr.operation = server_handshake
  /\ lookup_direct_nid(last.pre, last.hdr.source_node)
       # invalid_connection_handle

\* C5: dedup.  Such a call adds no direct entry, calls finalize_handshake
\* exactly once, returns close_connection, and leaves the peer's direct
\* route in place when the handshake came in on a different handle.
C5_Dedup ==
  DupServerHandshake =>
    /\ \A h \in Handles :
         Now.direct_by_hdl_[h] \in {last.pre.direct_by_hdl_[h], invalid_node_id}
    /\ \A n \in Nodes :
         Now.direct_by_nid_[n]
           \in {last.pre.direct_by_nid_[n], invalid_connection_handle}
    /\ Count(last.upcalls, "finalize_handshake") = 1
    /\ CountFor(last.upcalls, "finalize_handshake", last.hdr.source_node) = 1
    /\ last.result = close_connection
    /\ (last.pre.direct_by_nid_[last.hdr.source_node] # last.hdl =>
          Now.direct_by_nid_[last.hdr.source_node]
            = last.pre.direct_by_nid_[last.hdr.source_node])

C5_Witness ==
  /\ DupServerHandshake
  /\ last.hdr.source_node # last.inst
  /\ last.pre.direct_by_nid_[last.hdr.source_node] # last.hdl
  /\ Now.direct_by_nid_[last.hdr.source_node] # invalid_connection_handle
  /\ last.result = close_connection

----------------------------------------------------------------------------
(* C6 *)

\* the last call processed a server_handshake naming the local node
SelfHandshake ==
  /\ FrameDone
  /\ last.hdr.operation = server_handshake
  /\ last.hdr.source_node = last.inst

\* aid and sigs as the frame carries them
FrameAid ==
  IF last.is_payload /\ Len(last.payload) > 0
  THEN last.payload[1] ELSE invalid_actor_id

FrameSigs ==
  IF last.is_payload /\ Len(last.payload) > 0
  THEN Tail(last.payload) ELSE <<>>

SelfHandshakeUpcall ==
  /\ Len(last.upcalls) >= 1
  /\ last.upcalls[1] = U("finalize_handshake", last.inst, FrameAid, FrameSigs)
  /\ last.result = close_connection

\* C6 as the specification states it: on any handle the routing table is
\* left as it was.
C6_Original ==
  SelfHandshake => SelfHandshakeUpcall /\ Now = last.pre

\* C6 amended: finalize_handshake(local node, aid, sigs), then
\* close_connection; the routing table is unchanged when the handle had no
\* direct entry, otherwise the failure closure erased that handle's entry.
C6_SelfHandshake ==
  SelfHandshake =>
    /\ SelfHandshakeUpcall
    /\ Count(last.upcalls, "finalize_handshake") = 1
    /\ (lookup_direct_hdl(last.pre, last.hdl) = invalid_node_id =>
          Now = last.pre /\ Len(last.upcalls) = 1)
    /\ (lookup_direct_hdl(last.pre, last.hdl) # invalid_node_id =>
          /\ Now.direct_by_hdl_[last.hdl] = invalid_node_id
          /\ \A h \in Handles \ {last.hdl} :
               Now.direct_by_hdl_[h] = last.pre.direct_by_hdl_[h])

C6_Witness ==
  /\ SelfHandshake
  /\ last.is_payload
  /\ lookup_direct_hdl(last.pre, last.hdl) = invalid_node_id
  /\ \E h \in Handles : last.pre.direct_by_hdl_[h] # invalid_node_id
  /\ Now = last.pre

----------------------------------------------------------------------------
(* C7 *)

\* nodes whose next-hop set was emptied by the call and that have no
\* direct route
Emptied ==
  {x \in Nodes : /\ last.pre.indirect_[x] # {}
                 /\ Now.indirect_[x] = {}
                 /\ Now.direct_by_nid_[x] = invalid_connection_handle}

\* C7: handle_node_shutdown(B) for a directly connected B removes B's
\* direct entry and B from every next-hop set; purge_state is called once
\* for B, once for every node whose next-hop set became empty and that has
\* no direct route, and for no other node; handle_node_shutdown(invalid)
\* changes nothing and makes no upcall.
C7_ShutdownCascade ==
  last.op = "handle_node_shutdown" =>
    /\ (last.node = invalid_node_id =>
          Now = last.pre /\ last.upcalls = <<>>)
    /\ (lookup_direct_nid(last.pre, last.node) # invalid_connection_handle =>
          /\ Now.direct_by_nid_[last.node] = invalid_connection_handle
          /\ \A h \in Handles : Now.direct_by_hdl_[h] # last.node
          /\ \A x \in Nodes : last.node \notin Now.indirect_[x]
          /\ \A x \in Nodes :
               Now.indirect_[x] = last.pre.indirect_[x] \ {last.node}
          /\ \A i \in 1..Len(last.upcalls) :
               last.upcalls[i].name = "purge_state"
          /\ \A x \in Nodes :
               CountFor(last.upcalls, "purge_state", x) =
                 IF x = last.node \/ x \in Emptied THEN 1 ELSE 0)

C7_Witness ==
  /\ last.op = "handle_node_shutdown"
  /\ lookup_direct_nid(last.pre, last.node) # invalid_connection_handle
  /\ \E x \in Nodes : x \in Emptied /\ x # last.node
  /\ \E y \in Nodes : last.node \in last.pre.indirect_[y] /\ y \notin Emptied
  /\ Len(last.upcalls) = 2

----------------------------------------------------------------------------
(* C8 *)

\* the last call completed a forwardable frame without a route to its
\* destination, from a remote source that has a route
NoRouteCase ==
  /\ FrameDone
  /\ Forwardable
  /\ ~HasRoute(last.pre, last.hdr.dest_node)
  /\ last.hdr.source_node # last.inst
  /\ HasRoute(last.pre, last.hdr.source_node)

\* the error reply as it must appear on the wire
ErrorReply ==
  <<last.inst, last.hdr.source_node, invalid_actor_id, invalid_actor_id,
    header_size + Len(last.payload), kill_proxy_instance,
    no_route_to_destination>>
  \o <<last.hdr.source_node, last.hdr.dest_node, last.hdr.source_actor,
       last.hdr.dest_actor, last.hdr.payload_len, last.hdr.operation,
       last.hdr.operation_data>>
  \o last.payload

\* C8: exactly one kill_proxy_instance reply (no_route_to_destination,
\* payload = original header ++ original payload) goes to the write buffer
\* of a route to the source; no upcall, table unchanged, await_header.
C8_NoRouteReply ==
  NoRouteCase =>
    /\ \E r \in RouteHandles(last.pre, last.hdr.source_node) :
         /\ last.appended[r] = ErrorReply
         /\ \A h \in Handles \ {r} : last.appended[h] = <<>>
    /\ last.upcalls = <<>>
    /\ Now = last.pre
    /\ last.result = await_header

C8_Witness ==
  /\ NoRouteCase
  /\ last.is_payload /\ Len(last.payload) > 0
  /\ lookup_direct_nid(last.pre, last.hdr.source_node)
       = invalid_connection_handle
  /\ \E h \in Handles : last.appended[h] = ErrorReply

----------------------------------------------------------------------------
(* C9 *)

ForwardCase ==
  /\ FrameDone
  /\ Forwardable
  /\ HasRoute(last.pre, last.hdr.dest_node)

\* the frame as it was received
ReceivedBytes ==
  <<last.hdr.source_node, last.hdr.dest_node, last.hdr.source_actor,
    last.hdr.dest_actor, last.hdr.payload_len, last.hdr.operation,
    last.hdr.operation_data>> \o last.payload

\* C9: forwarding appends exactly the received header and payload to the
\* found route's buffer and to no other; no upcall, table unchanged,
\* await_header.
C9_Forwarding ==
  ForwardCase =>
    /\ \E r \in RouteHandles(last.pre, last.hdr.dest_node) :
         /\ last.appended[r] = ReceivedBytes
         /\ \A h \in Handles \ {r} : last.appended[h] = <<>>
    /\ last.upcalls = <<>>
    /\ Now = last.pre
    /\ last.result = await_header

C9_Witness ==
  /\ ForwardCase
  /\ last.is_payload /\ Len(last.payload) > 0
  /\ lookup_direct_nid(last.pre, last.hdr.dest_node)
       = invalid_connection_handle
  /\ \E h \in Handles : last.appended[h] = ReceivedBytes

----------------------------------------------------------------------------
(* C10 *)

\* exactly connection h was opened and every byte sent on it was processed
S1Done(h) ==
  /\ last.op = "idle"
  /\ \A i \in Insts :
       /\ cstate[i][h] = await_header
       /\ inbound[i][h] = <<>>
       /\ \A g \in Handles \ {h} : cstate[i][g] = no_connection

OnlyDirect(t, h, n) ==
  /\ t.direct_by_hdl_ = [g \in Handles |-> IF g = h THEN n ELSE invalid_node_id]
  /\ t.direct_by_nid_ =
       [x \in Nodes |-> IF x = n THEN h ELSE invalid_connection_handle]
  /\ t.indirect_ = [x \in Nodes |-> {}]

NewPeerHandshake(op) ==
  /\ FrameDone
  /\ last.hdr.operation = op
  /\ last.hdr.source_node # last.inst
  /\ lookup_direct_nid(last.pre, last.hdr.source_node)
       = invalid_connection_handle
  /\ lookup_direct_hdl(last.pre, last.hdl) = invalid_node_id

LearnedDirectly ==
  U("learned_new_node_directly", last.hdr.source_node, 0, <<>>)

\* C10: handshake S1.  The accepting side emits server_handshake(version,
\* source = itself, dest = invalid); the peer adds a direct route and
\* answers client_handshake(source = itself, dest = the acceptor); the
\* acceptor adds a direct route; afterwards each side has exactly one
\* direct entry, for the other node, and learned_new_node_directly(peer,
\* false) fired exactly once on each side.
C10_HandshakeS1 ==
  /\ (last.op = "accept" =>
        /\ Len(last.appended[last.hdl]) >= header_size
        /\ LET sent == Decode(last.appended[last.hdl])
           IN /\ sent.operation = server_handshake
              /\ sent.operation_data = version
              /\ sent.source_node = last.inst
              /\ sent.dest_node = invalid_node_id
              /\ sent.payload_len = Len(last.appended[last.hdl]) - header_size)
  /\ (NewPeerHandshake(server_handshake) =>
        /\ Now.direct_by_nid_[last.hdr.source_node] = last.hdl
        /\ Now.direct_by_hdl_[last.hdl] = last.hdr.source_node
        /\ last.appended[last.hdl] =
             <<last.inst, last.hdr.source_node, invalid_actor_id,
               invalid_actor_id, 0, client_handshake, 0>>
        /\ last.flushed = <<last.hdl>>
        /\ CountFor(last.upcalls, "learned_new_node_directly",
                    last.hdr.source_node) = 1
        /\ last.upcalls[1] = LearnedDirectly)
  /\ (NewPeerHandshake(client_handshake) =>
        /\ Now.direct_by_nid_[last.hdr.source_node] = last.hdl
        /\ Now.direct_by_hdl_[last.hdl] = last.hdr.source_node
        /\ last.upcalls = <<LearnedDirectly>>)
  /\ \A h \in Handles :
       S1Done(h) =>
         \A i \in Insts :
           /\ OnlyDirect(tbl_[i], h, Peer(i))
           /\ learned[i] = [n \in Nodes |-> IF n = Peer(i) THEN 1 ELSE 0]

C10_Witness ==
  \E h \in Handles :
    /\ S1Done(h)
    /\ \A i \in Insts :
         OnlyDirect(tbl_[i], h, Peer(i)) /\ learned[i][Peer(i)] = 1

----------------------------------------------------------------------------
(* C11 *)

\* the peer whose direct connection the last frame arrived on
LastHop == lookup_direct_hdl(last.pre, last.hdl)

\* the last call completed a dispatch_message for the local node that came
\* over the direct connection of a peer and names a third node without a
\* direct route as its source
DiscoveryCase ==
  /\ FrameDone
  /\ last.hdr.operation = dispatch_message
  /\ last.hdr.dest_node = last.inst
  /\ LastHop # invalid_node_id
  /\ last.hdr.source_node \notin {invalid_node_id, last.inst, LastHop}
  /\ lookup_direct_nid(last.pre, last.hdr.source_node)
       = invalid_connection_handle

Discovered ==
  /\ LastHop \in Now.indirect_[last.hdr.source_node]
  /\ Now.indirect_[last.hdr.source_node]
       = last.pre.indirect_[last.hdr.source_node] \cup {LastHop}
  /\ CountFor(last.upcalls, "learned_new_node_indirectly",
              last.hdr.source_node)
       = (IF last.pre.indirect_[last.hdr.source_node] = {} THEN 1 ELSE 0)
  /\ Count(last.upcalls, "learned_new_node_indirectly")
       = CountFor(last.upcalls, "learned_new_node_indirectly",
                  last.hdr.source_node)
  /\ Count(last.upcalls, "deliver") = 1
  /\ CountFor(last.upcalls, "deliver", last.hdr.source_node) = 1
  /\ last.result = await_header

\* C11 as the specification states it: every such frame, with or without
\* a payload, records the hop and is delivered.
C11_Original ==
  DiscoveryCase => Discovered

\* C11 amended: indirect discovery S2.  Such a frame that carries its
\* payload puts the peer into indirect[source]; learned_new_node_indirectly
\* fires exactly when the source had no indirect entry before; deliver is
\* called once with that source.  Such a frame without a payload
\* (payload_len = 0) is a protocol violation: the connection is closed,
\* nothing is delivered and nothing is learned.
C11_IndirectDiscovery ==
  DiscoveryCase =>
    /\ (last.is_payload => Discovered)
    /\ (~last.is_payload =>
          /\ last.result = close_connection
          /\ Count(last.upcalls, "deliver") = 0
          /\ Count(last.upcalls, "learned_new_node_indirectly") = 0
          /\ Now.direct_by_hdl_[last.hdl] = invalid_node_id)

C11_Witness ==
  /\ DiscoveryCase
  /\ last.is_payload
  /\ last.pre.indirect_[last.hdr.source_node] = {LastHop}
  /\ Count(last.upcalls, "learned_new_node_indirectly") = 0
  /\ Count(last.upcalls, "deliver") = 1

----------------------------------------------------------------------------
(* C12 *)

HeartbeatFrame(n) ==
  <<last.inst, n, invalid_actor_id, invalid_actor_id, 0, heartbeat, 0>>

DirectHandles(t) == {h \in Handles : t.direct_by_hdl_[h] # invalid_node_id}

DirectPeers(t) ==
  {n \in Nodes : t.direct_by_nid_[n] # invalid_connection_handle}

FlushCount(h) ==
  Cardinality({k \in 1..Len(last.flushed) : last.flushed[k] = h})

\* C12: heartbeat fan-out.  With direct routes to N peers, one call of
\* handle_heartbeat appends one heartbeat frame (empty payload, source =
\* local node, dest = the peer) to each direct peer's write buffer and
\* requests one flush per direct handle, N frames and N flushes in all;
\* no other buffer is written and the routing table is unchanged.
C12_HeartbeatFanout ==
  last.op = "handle_heartbeat" =>
    /\ \A n \in DirectPeers(last.pre) :
         last.appended[last.pre.direct_by_nid_[n]] = HeartbeatFrame(n)
    /\ \A h \in Handles :
         /\ last.appended[h] # <<>> =>
              \E n \in DirectPeers(last.pre) : last.pre.direct_by_nid_[n] = h
         /\ Len(last.appended[h]) \in {0, header_size}
         /\ FlushCount(h) = (IF h \in DirectHandles(last.pre) THEN 1 ELSE 0)
    /\ Len(last.flushed) = Cardinality(DirectPeers(last.pre))
    /\ Cardinality({h \in Handles : last.appended[h] # <<>>})
         = Cardinality(DirectPeers(last.pre))
    /\ last.upcalls = <<>>
    /\ Now = last.pre

\* the same, for the tables in which the two direct maps agree
C12_WhenBijective ==
  Bijection(last.pre) => C12_HeartbeatFanout

----------------------------------------------------------------------------
(* C13 *)

\* C13: write-then-flush.  In every call of handle(), dispatch() and
\* handle_heartbeat(), every connection whose write buffer got bytes is
\* flushed before the call returns, the no-route error reply and the
\* client_handshake reply included.
C13_WriteThenFlush ==
  last.op \in {"handle", "dispatch", "handle_heartbeat"} =>
    \A h \in Handles : last.appended[h] # <<>> => FlushCount(h) >= 1

\* the same for every call but the no-route error reply
C13_ExceptErrorReply ==
  ~(last.op = "handle" /\ NoRouteCase) => C13_WriteThenFlush

----------------------------------------------------------------------------
(* C14 *)

\* C14: cleanup is idempotent.  After handle() returned close_connection
\* for a connection, handle_node_shutdown for the node the connection was
\* mapped to, or a second failure closure on the same handle, leaves the
\* routing table as it is and calls purge_state for no node; the closure
\* itself purges every lost node once.
C14_CleanupIdempotent ==
  /\ last.after_close =>
       /\ Now = last.pre
       /\ last.upcalls = <<>>
       /\ last.op = "handle" => last.result = close_connection
  /\ last.op = "handle" /\ last.result = close_connection =>
       \A x \in Nodes : CountFor(last.upcalls, "purge_state", x) <= 1

C14_Witness ==
  /\ last.after_close
  /\ last.op = "handle_node_shutdown"
  /\ last.node # invalid_node_id
  /\ Now = last.pre
  /\ last.upcalls = <<>>

----------------------------------------------------------------------------
(* C15 *)

\* the frame a dispatch() call has to put on the wire
DispatchFrame ==
  <<IF last.hdr.source_node = invalid_node_id THEN last.inst
    ELSE last.hdr.source_node,
    last.hdr.dest_node, last.hdr.source_actor, last.hdr.dest_actor,
    Len(last.payload), dispatch_message, last.hdr.operation_data>>
  \o last.payload

\* C15: dispatch() to a receiver on a remote node.  Without a route it
\* returns false, appends nothing, requests no flush and notifies
\* message_sending_failed; with a route (direct, or indirect through a
\* directly connected hop) it appends one dispatch_message frame
\* (operation_data = mid, dest = receiver's node, source = sender's node or
\* the local node for an invalid sender) to the route's buffer, flushes
\* the route, notifies message_sent and returns true.  The routing table
\* is unchanged in both cases.
C15_Dispatch ==
  last.op = "dispatch" =>
    /\ Now = last.pre
    /\ last.upcalls = <<>>
    /\ (~HasRoute(last.pre, last.hdr.dest_node) =>
          /\ last.result = "false"
          /\ last.appended = NoBytes
          /\ last.flushed = <<>>
          /\ last.hooks = <<"message_sending_failed">>)
    /\ (HasRoute(last.pre, last.hdr.dest_node) =>
          /\ last.result = "true"
          /\ \E r \in RouteHandles(last.pre, last.hdr.dest_node) :
               /\ last.appended = [NoBytes EXCEPT ![r] = DispatchFrame]
               /\ last.flushed = <<r>>
          /\ last.hooks = <<"message_sent">>)

C15_Witness ==
  /\ last.op = "dispatch"
  /\ last.result = "true"
  /\ lookup_direct_nid(last.pre, last.hdr.dest_node)
       = invalid_connection_handle
  /\ last.hdr.source_node \notin {invalid_node_id, last.inst}
  /\ \E h \in Handles : last.appended[h] = DispatchFrame

----------------------------------------------------------------------------
(* C16 *)

CloseCase == last.op = "handle" /\ last.result = close_connection

\* the close came from one of the two server_handshake tests
HandshakeClose ==
  /\ FrameDone
  /\ last.hdr.operation = server_handshake

\* C16: a protocol violation on one connection does not affect peers.
\* When handle() returns close_connection for h, the direct entries of the
\* other handles are unchanged, no bytes are appended, and the only upcalls
\* are purge_state for nodes lost with h, preceded by one
\* finalize_handshake in the two server_handshake cases.
C16_PeersUnaffected ==
  CloseCase =>
    /\ \A g \in Handles \ {last.hdl} :
         Now.direct_by_hdl_[g] = last.pre.direct_by_hdl_[g]
    /\ \A n \in Nodes :
         last.pre.direct_by_nid_[n] \notin
             {invalid_connection_handle, last.hdl}
           => Now.direct_by_nid_[n] = last.pre.direct_by_nid_[n]
    /\ last.appended = NoBytes
    /\ last.flushed = <<>>
    /\ last.hooks = <<>>
    /\ Count(last.upcalls, "finalize_handshake")
         = (IF HandshakeClose THEN 1 ELSE 0)
    /\ \A k \in 1..Len(last.upcalls) :
         \/ /\ last.upcalls[k].name = "purge_state"
            /\ last.upcalls[k].node \in lost_nodes(last.pre, Now)
         \/ /\ k = 1
            /\ last.upcalls[k].name = "finalize_handshake"

C16_Witness ==
  /\ CloseCase
  /\ ~HandshakeClose
  /\ lookup_direct_hdl(last.pre, last.hdl) # invalid_node_id
  /\ \E g \in Handles \ {last.hdl} :
       /\ last.pre.direct_by_hdl_[g] # invalid_node_id
       /\ Now.direct_by_hdl_[g] = last.pre.direct_by_hdl_[g]
  /\ Count(last.upcalls, "purge_state") >= 1

----------------------------------------------------------------------------
(* C17 *)

\* the last call completed a handshake or heartbeat frame
ControlFrame ==
  /\ FrameDone
  /\ last.hdr.operation \in {server_handshake, client_handshake, heartbeat}

ClientHandshakeReply ==
  <<last.inst, last.hdr.source_node, invalid_actor_id, invalid_actor_id, 0,
    client_handshake, 0>>

\* C17: handshake and heartbeat frames are never forwarded.  Whatever
\* their dest_node, they are processed locally: no forwarding notification,
\* no error reply, nothing appended to another connection's buffer (the
\* only bytes written are the client_handshake answer on the connection a
\* server_handshake came in on).  An inbound heartbeat makes exactly one
\* handle_heartbeat(source_node) upcall, leaves the routing table unchanged
\* and returns await_header.
C17_ControlFramesLocal ==
  ControlFrame =>
    /\ last.hooks = <<>>
    /\ \A g \in Handles \ {last.hdl} : last.appended[g] = <<>>
    /\ last.appended[last.hdl] \in {<<>>, ClientHandshakeReply}
    /\ (last.hdr.operation # server_handshake => last.appended = NoBytes)
    /\ (last.hdr.operation = heartbeat =>
          /\ last.upcalls =
               <<U("handle_heartbeat", last.hdr.source_node, 0, <<>>)>>
          /\ Now = last.pre
          /\ last.result = await_header)

C17_Witness ==
  /\ ControlFrame
  /\ last.hdr.operation = heartbeat
  /\ last.hdr.dest_node \notin {invalid_node_id, last.inst}
  /\ lookup_direct_nid(last.pre, last.hdr.dest_node)
       \notin {invalid_connection_handle, last.hdl}
  /\ last.appended = NoBytes
  /\ last.result = await_header

----------------------------------------------------------------------------
(* C18 *)

\* the last call added a direct route for the source of a handshake
NewDirectRoute ==
  /\ FrameDone
  /\ last.hdr.operation \in {server_handshake, client_handshake}
  /\ last.result = await_header
  /\ lookup_direct_nid(last.pre, last.hdr.source_node)
       = invalid_connection_handle

\* C18: no node has a direct entry and an indirect entry at once.  The
\* handshake that adds the direct entry of n removes n's indirect entry in
\* the same call and reports was_indirect = true to
\* learned_new_node_directly exactly when there was one; a
\* dispatch_message adds no indirect entry for a source that has a direct
\* route.
C18_DirectOrIndirect ==
  /\ \A n \in Nodes :
       ~(/\ \/ Now.direct_by_nid_[n] # invalid_connection_handle
            \/ \E h \in Handles : Now.direct_by_hdl_[h] = n
         /\ Now.indirect_[n] # {})
  /\ NewDirectRoute =>
       /\ Now.direct_by_nid_[last.hdr.source_node] # invalid_connection_handle
       /\ Now.indirect_[last.hdr.source_node] = {}
       /\ Count(last.upcalls, "learned_new_node_directly") = 1
       /\ \E k \in 1..Len(last.upcalls) :
            last.upcalls[k] =
              U("learned_new_node_directly", last.hdr.source_node,
                IF last.pre.indirect_[last.hdr.source_node] # {}
                THEN 1 ELSE 0, <<>>)
  /\ (/\ FrameDone
      /\ last.hdr.operation = dispatch_message
      /\ lookup_direct_nid(last.pre, last.hdr.source_node)
           # invalid_connection_handle)
       => \A x \in Nodes : Now.indirect_[x] \subseteq last.pre.indirect_[x]

C18_Witness ==
  /\ NewDirectRoute
  /\ last.pre.indirect_[last.hdr.source_node] # {}
  /\ Now.indirect_[last.hdr.source_node] = {}
  /\ \E k \in 1..Len(last.upcalls) :
       last.upcalls[k] =
         U("learned_new_node_directly", last.hdr.source_node, 1, <<>>)

----------------------------------------------------------------------------
(* C19 *)

\* C19: the local node never becomes a routing-table entry.  After any
\* sequence of handle() calls the local node has no direct entry and no
\* indirect entry, and neither learned_new_node_directly nor
\* learned_new_node_indirectly is called with the local node's id.
C19_LocalNodeNoEntry ==
  /\ Now.direct_by_nid_[last.inst] = invalid_connection_handle
  /\ \A h \in Handles : Now.direct_by_hdl_[h] # last.inst
  /\ Now.indirect_[last.inst] = {}
  /\ CountFor(last.upcalls, "learned_new_node_directly", last.inst) = 0
  /\ CountFor(last.upcalls, "learned_new_node_indirectly", last.inst) = 0

\* the same for every frame but a client_handshake naming the local node
C19_NoIndirectEntry ==
  /\ Now.indirect_[last.inst] = {}
  /\ CountFor(last.upcalls, "learned_new_node_indirectly", last.inst) = 0
  /\ (last.op = "handle" /\ last.hdr.operation # client_handshake
        => CountFor(last.upcalls, "learned_new_node_directly", last.inst) = 0)

----------------------------------------------------------------------------
(* C20 *)

Opened(h) == \A i \in Insts : cstate[i][h] # no_connection

\* two connections were opened between the two nodes and every byte sent
\* on them was processed
TwoConnectionsSettled ==
  /\ last.op = "idle"
  /\ Cardinality({h \in Handles : Opened(h)}) = 2
  /\ \A i \in Insts, h \in Handles :
       /\ cstate[i][h] # await_payload
       /\ inbound[i][h] = <<>>

\* the direct entries of instance i are exactly one route, to its peer
OneRouteToPeer(i) ==
  \E h \in Handles :
    /\ Opened(h)
    /\ cstate[i][h] = await_header
    /\ OnlyDirect(tbl_[i], h, Peer(i))

\* C20: crossing connections.  When both nodes open a connection to each
\* other at the same time, then under every interleaving of the frame
\* deliveries, once all handshake frames are processed each node has
\* exactly one direct entry, for the other node,
\* learned_new_node_directly fired exactly once on each node, and no
\* direct entry refers to a connection for which the node's handle()
\* returned close_connection.
C20_CrossingConnections ==
  /\ TwoConnectionsSettled =>
       \A i \in Insts :
         /\ OneRouteToPeer(i)
         /\ learned[i] = [n \in Nodes |-> IF n = Peer(i) THEN 1 ELSE 0]
  /\ \A i \in Insts, h \in Handles :
       cstate[i][h] = close_connection =>
         /\ tbl_[i].direct_by_hdl_[h] = invalid_node_id
         /\ \A n \in Nodes : tbl_[i].direct_by_nid_[n] # h

\* each side answered the server_handshake of the connection the other
\* side accepted: the two routes run over different connections
C20_Witness ==
  /\ TwoConnectionsSettled
  /\ \A i \in Insts : OneRouteToPeer(i) /\ learned[i][Peer(i)] = 1
  /\ tbl_[1].direct_by_nid_[2] # tbl_[2].direct_by_nid_[1]

\* a crossing in which one side closed the connection it accepted
C20_ClosedOne ==
  /\ TwoConnectionsSettled
  /\ \E i \in Insts, h \in Handles : cstate[i][h] = close_connection
  /\ \A i \in Insts : OneRouteToPeer(i)

====
